---- MODULE Spec2Model ----
(***************************************************************************)
(* ts-micro-result: the Result value (ResultImpl), its predicates and its  *)
(* transform operators map / flatMap, the factories ok / err /             *)
(* createResult / validationErrors, the error builders defineError and     *)
(* defineErrorAdvanced, the JSON codec toJSON (verbose and compact) /      *)
(* fromJson, and inferStatus.                                              *)
(*                                                                         *)
(* JavaScript values are modelled as follows.                              *)
(*   - an object is a function from property names to values; a property   *)
(*     whose value is undefined is the same as an absent property (no code *)
(*     of the library tells them apart, and JSON.stringify drops it);      *)
(*   - an optional value (a parameter or a property read) is a sequence of *)
(*     length 0 (undefined) or 1 (the value);                              *)
(*   - null as a payload is the value Null; an errors entry that is not an *)
(*     object (JSON null, a JSON number) is a record with a jstype field;  *)
(*   - an array is a sequence.                                             *)
(* A callback handed to map / flatMap is a function from the argument it   *)
(* is called with to what it does: return a value or throw.                *)
(***************************************************************************)
EXTENDS Integers, Sequences, FiniteSets, TLC

VARIABLES cur, prev, root, op, calls, steps

vars == <<cur, prev, root, op, calls, steps>>

\* ------------------------------------------------------------ bounds
MaxErrors == 2
MaxCauseDepth == 2
MaxChain == 2

\* ------------------------------------------------------- JS plumbing
Null == "<null>"
Undefined == <<>>
Def(v) == <<v>>

\* o[k] as an optional value: undefined when the property is absent.
Get(o, k) == IF k \in DOMAIN o THEN Def(o[k]) ELSE Undefined

\* The object {k: v}, or {} when v is undefined.
Prop(k, v) == IF v = Undefined THEN <<>> ELSE (k :> v[1])

\* Truthiness of an optional string / number / object property.
TruthyStr(v) == v # Undefined /\ v[1] # ""
TruthyObj(v) == v # Undefined

\* v1 || v2, v1 ?? v2 on optional strings and numbers (null never occurs).
OrElse(v1, v2) == IF TruthyStr(v1) THEN v1 ELSE v2
Coalesce(v1, v2) == IF v1 # Undefined THEN v1 ELSE v2

JsNull == [jstype |-> "null"]
JsNumber == [jstype |-> "number"]
IsObject(e) == "jstype" \notin DOMAIN e

\* Property reads on a non-null primitive give undefined: it reads as {}.
Props(e) == IF IsObject(e) THEN e ELSE <<>>

\* A thrown exception / a returned value.
Throw(isError, message) == [threw |-> TRUE, isError |-> isError, message |-> message]
Return(v) == [threw |-> FALSE, value |-> v]

\* ------------------------------------------------ program constants
STATUS_OK == 200
STATUS_NO_CONTENT == 204
STATUS_BAD_REQUEST == 400
STATUS_SERVER_ERROR == 500

\* ------------------------------------------------------ ErrorDetail codec
\* compactError: verbose ErrorDetail -> single-letter keys, cause recursively.
RECURSIVE compactError(_)
compactError(error) ==
    Prop("c", Get(error, "code"))
    @@ Prop("m", Get(error, "message"))
    @@ Prop("s", Get(error, "status"))
    @@ (IF TruthyStr(Get(error, "path")) THEN Prop("p", Get(error, "path")) ELSE <<>>)
    @@ (IF TruthyStr(Get(error, "level")) THEN Prop("l", Get(error, "level")) ELSE <<>>)
    @@ (IF TruthyObj(Get(error, "meta")) THEN Prop("meta", Get(error, "meta")) ELSE <<>>)
    @@ (IF TruthyObj(Get(error, "cause"))
        THEN "cause" :> compactError(error.cause) ELSE <<>>)

\* expandError: compact (or verbose) entry -> verbose ErrorDetail, cause recursively.
RECURSIVE expandError(_)
expandError(compact) ==
    LET c == Props(compact)
        s == Get(c, "s")
        status == Get(c, "status")
        p == Get(c, "p")
        path == Get(c, "path")
        l == Get(c, "l")
        level == Get(c, "level")
    IN  Prop("code", OrElse(Get(c, "c"), Get(c, "code")))
        @@ Prop("message", OrElse(Get(c, "m"), Get(c, "message")))
        @@ (IF s # Undefined \/ status # Undefined
            THEN Prop("status", Coalesce(s, status)) ELSE <<>>)
        @@ (IF TruthyStr(p) \/ TruthyStr(path)
            THEN Prop("path", Coalesce(p, path)) ELSE <<>>)
        @@ (IF TruthyStr(l) \/ TruthyStr(level)
            THEN Prop("level", Coalesce(l, level)) ELSE <<>>)
        @@ (IF TruthyObj(Get(c, "meta")) THEN Prop("meta", Get(c, "meta")) ELSE <<>>)
        @@ (IF TruthyObj(Get(c, "cause"))
            THEN "cause" :> expandError(c.cause) ELSE <<>>)

\* ------------------------------------------------------------ ResultImpl
\* The constructor stores its four arguments verbatim.
ResultImpl(data, errors, status, meta) ==
    Prop("data", data) @@ [errors |-> errors]
    @@ Prop("status", status) @@ Prop("meta", meta)

createResult(data, errors, status, meta) == ResultImpl(data, errors, status, meta)

isOk_ByLevel(r) ==
    \A i \in 1..Len(r.errors) :
        Get(Props(r.errors[i]), "level") \in {Def("warning"), Def("info")}
isOk(r) == Len(r.errors) = 0

isOkWithData(r) == Len(r.errors) = 0 /\ Get(r, "data") # Def(Null)

\* The level a loop of isError / hasWarning reads from entry e; the read is a
\* TypeError on a null entry and undefined on any other non-object.
LevelOf(e) == Get(Props(e), "level")

\* !lvl || lvl === "error" || lvl === "critical"
IsErrorLevel(lvl) == ~TruthyStr(lvl) \/ lvl \in {Def("error"), Def("critical")}

\* The entry at which a loop over r.errors stops: the first one that is null
\* or that satisfies the test of the loop (decides); 0 when the loop runs out.
FirstStop(r, decides) ==
    LET stops == {i \in 1..Len(r.errors) : r.errors[i] = JsNull \/ i \in decides}
    IN  IF stops = {} THEN 0 ELSE CHOOSE i \in stops : \A j \in stops : i <= j

LoopOutcome(r, decides) ==
    LET i == FirstStop(r, decides)
    IN  IF i = 0 THEN Return(FALSE)
        ELSE IF r.errors[i] = JsNull THEN Throw(TRUE, "<TypeError>")
        ELSE Return(TRUE)

isError_ExplicitOnly(r) ==
    LoopOutcome(r, {i \in 1..Len(r.errors) :
                        LevelOf(r.errors[i]) \in {Def("error"), Def("critical")}})
isError(r) ==
    LoopOutcome(r, {i \in 1..Len(r.errors) : IsErrorLevel(LevelOf(r.errors[i]))})

hasWarning_FirstOnly(r) ==
    LoopOutcome(r, {i \in 1..Len(r.errors) :
                        i = 1 /\ LevelOf(r.errors[i]) = Def("warning")})
hasWarning(r) ==
    LoopOutcome(r, {i \in 1..Len(r.errors) : LevelOf(r.errors[i]) = Def("warning")})

\* toJSON(compact): a thrown TypeError when compactError reads a null entry.
toJSON(r, compact) ==
    LET data == Get(r, "data")
        base == [errors |-> IF compact
                            THEN [i \in 1..Len(r.errors) |-> compactError(Props(r.errors[i]))]
                            ELSE r.errors]
                @@ (IF data # Undefined /\ data # Def(Null)
                    THEN Prop("data", data) ELSE <<>>)
                @@ Prop("status", Get(r, "status"))
    IN  IF compact /\ \E i \in 1..Len(r.errors) : r.errors[i] = JsNull
        THEN Throw(TRUE, "<TypeError>")
        ELSE Return(IF "meta" \in DOMAIN r THEN r.meta @@ base ELSE base)

\* The error a throwing callback is turned into.
TransformError(code, fallback, thrown) ==
    [code |-> code,
     message |-> IF thrown.isError THEN thrown.message ELSE fallback,
     status |-> STATUS_SERVER_ERROR,
     level |-> "error"]

\* Fast path "propagate errors" of map and flatMap.
Propagated_KeepsData(r) ==
    ResultImpl(Get(r, "data"), r.errors, Get(r, "status"), Get(r, "meta"))
Propagated(r) ==
    ResultImpl(Def(Null), r.errors, Get(r, "status"), Get(r, "meta"))

\* Fast path "null data" of map and flatMap.
Emptied_DropsStatus(r) ==
    ResultImpl(Def(Null), <<>>, Undefined, Get(r, "meta"))
Emptied(r) ==
    ResultImpl(Def(Null), <<>>, Get(r, "status"), Get(r, "meta"))

\* The try / catch of map, given what fn(this.data) did.
Mapped_DropsMeta(r, did) ==
    IF ~did.threw
    THEN ResultImpl(did.value, <<>>, Get(r, "status"), Undefined)
    ELSE ResultImpl(Def(Null),
            <<TransformError("MAP_ERROR", "Error in map function", did)>>,
            Def(STATUS_SERVER_ERROR), Get(r, "meta"))
Mapped_KeepsDataOnThrow(r, did) ==
    IF ~did.threw
    THEN ResultImpl(did.value, <<>>, Get(r, "status"), Get(r, "meta"))
    ELSE ResultImpl(Get(r, "data"),
            <<TransformError("MAP_ERROR", "Error in map function", did)>>,
            Def(STATUS_SERVER_ERROR), Get(r, "meta"))
Mapped(r, did) ==
    IF ~did.threw
    THEN ResultImpl(did.value, <<>>, Get(r, "status"), Get(r, "meta"))
    ELSE ResultImpl(Def(Null),
            <<TransformError("MAP_ERROR", "Error in map function", did)>>,
            Def(STATUS_SERVER_ERROR), Get(r, "meta"))

\* The try / catch of flatMap: fn's Result is returned as it is.
FlatMapped_Rewraps(r, did) ==
    IF ~did.threw
    THEN ResultImpl(Get(did.value, "data"), did.value.errors,
                    Get(r, "status"), Get(r, "meta"))
    ELSE ResultImpl(Def(Null),
            <<TransformError("FLATMAP_ERROR", "Error in flatMap function", did)>>,
            Def(STATUS_SERVER_ERROR), Get(r, "meta"))
FlatMapped_KeepsStatus(r, did) ==
    IF ~did.threw
    THEN did.value
    ELSE ResultImpl(Def(Null),
            <<TransformError("FLATMAP_ERROR", "Error in flatMap function", did)>>,
            Get(r, "status"), Get(r, "meta"))
FlatMapped(r, did) ==
    IF ~did.threw
    THEN did.value
    ELSE ResultImpl(Def(Null),
            <<TransformError("FLATMAP_ERROR", "Error in flatMap function", did)>>,
            Def(STATUS_SERVER_ERROR), Get(r, "meta"))

\* map(fn): the Result returned, the arguments fn was called with, and
\* whether the object returned is one that the call made (new ResultImpl).
map_NoErrorFastPath(r, fn) ==
    IF Get(r, "data") = Def(Null)
    THEN [result |-> Emptied(r), called |-> <<>>, fresh |-> TRUE]
    ELSE [result |-> Mapped(r, fn[Get(r, "data")]), called |-> <<Get(r, "data")>>,
          fresh |-> TRUE]
map(r, fn) ==
    IF Len(r.errors) > 0
    THEN [result |-> Propagated(r), called |-> <<>>, fresh |-> TRUE]
    ELSE IF Get(r, "data") = Def(Null)
    THEN [result |-> Emptied(r), called |-> <<>>, fresh |-> TRUE]
    ELSE [result |-> Mapped(r, fn[Get(r, "data")]), called |-> <<Get(r, "data")>>,
          fresh |-> TRUE]

\* flatMap(fn): likewise; when fn returns, the object returned is fn's.
flatMap_ReturnsThis(r, fn) ==
    IF Len(r.errors) > 0
    THEN [result |-> Propagated(r), called |-> <<>>, fresh |-> TRUE]
    ELSE IF Get(r, "data") = Def(Null)
    THEN [result |-> r, called |-> <<>>, fresh |-> FALSE]
    ELSE [result |-> FlatMapped(r, fn[Get(r, "data")]), called |-> <<Get(r, "data")>>,
          fresh |-> fn[Get(r, "data")].threw]
flatMap(r, fn) ==
    IF Len(r.errors) > 0
    THEN [result |-> Propagated(r), called |-> <<>>, fresh |-> TRUE]
    ELSE IF Get(r, "data") = Def(Null)
    THEN [result |-> Emptied(r), called |-> <<>>, fresh |-> TRUE]
    ELSE [result |-> FlatMapped(r, fn[Get(r, "data")]), called |-> <<Get(r, "data")>>,
          fresh |-> fn[Get(r, "data")].threw]

\* ------------------------------------------------------------- factories
ok(data, meta, status) ==
    LET safeData == IF data = Undefined THEN Def(Null) ELSE data
    IN  ResultImpl(safeData, <<>>, status, meta)

\* err's first argument: one ErrorDetail, or an array of them.
One(e) == [isArray |-> FALSE, value |-> e]
Many(es) == [isArray |-> TRUE, value |-> es]

\* error: One(e) or Many(es), which Array.isArray tells apart.
err(error, meta, status) ==
    LET errors == IF error.isArray THEN error.value ELSE <<error.value>>
    IN  ResultImpl(Def(Null), errors, status, meta)

\* -------------------------------------------------------------- http.ts
\* result.errors[i].status, read like LevelOf.
StatusOf(e) == Get(Props(e), "status")

\* inferStatus: the explicit status; 200 / 204 for a Result with no errors;
\* the first status that is truthy and >= 500; errors[0]?.status ?? 400.
inferStatus(result) ==
    LET server == {i \in 1..Len(result.errors) :
                        /\ StatusOf(result.errors[i]) # Undefined
                        /\ StatusOf(result.errors[i])[1] # 0
                        /\ StatusOf(result.errors[i])[1] >= 500}
        stop == FirstStop(result, server)
    IN  IF Get(result, "status") # Undefined THEN Return(result.status)
        ELSE IF isOk(result)
        THEN Return(IF Get(result, "data") # Def(Null) THEN STATUS_OK ELSE STATUS_NO_CONTENT)
        ELSE IF stop # 0
        THEN IF result.errors[stop] = JsNull
             THEN Throw(TRUE, "<TypeError>")
             ELSE Return(StatusOf(result.errors[stop])[1])
        ELSE Return(Coalesce(StatusOf(result.errors[1]), Def(STATUS_BAD_REQUEST))[1])

\* toHttpResponse(result): its one parameter is the Result; any further
\* argument of a call is ignored.
toHttpResponse(result) ==
    LET status == inferStatus(result)
    IN  IF status.threw THEN status
        ELSE Return([status |-> status.value, body |-> toJSON(result, FALSE).value])

\* ------------------------------------------------------------------ JSON
\* A JSON text is described by what JSON.parse makes of it:
\*   [kind |-> "syntax-error"]            JSON.parse throws
\*   [kind |-> "primitive"]               a number, a string, a boolean
\*   [kind |-> "null"], [kind |-> "array"]
\*   [kind |-> "object", props |-> o]     o.errors, when present, is
\*        [array |-> TRUE, items |-> <<...>>] or [array |-> FALSE].
JsonArray(items) == [array |-> TRUE, items |-> items]
NotArray == [array |-> FALSE]

stringify(obj) ==
    [kind |-> "object", props |-> [obj EXCEPT !.errors = JsonArray(@)]]

parse(json) ==
    IF json.kind = "syntax-error" THEN Throw(TRUE, "<SyntaxError>") ELSE Return(json)

\* The format probe, on an errors array whose first entry, if any, is an
\* object: 'c' in errors[0] && 'm' in errors[0].
isCompact_AnyEntry(errors) ==
    \E i \in 1..Len(errors) : {"c", "m"} \subseteq DOMAIN Props(errors[i])
isCompact(errors) ==
    /\ Len(errors) > 0
    /\ "c" \in DOMAIN errors[1]
    /\ "m" \in DOMAIN errors[1]

\* The body of fromJson's try block: a Result, or the exception thrown.
fromJsonTry(json) ==
    LET parsed == parse(json) IN
    IF parsed.threw THEN parsed
    ELSE LET v == parsed.value IN
    IF ~(v.kind = "object" /\ "errors" \in DOMAIN v.props /\ v.props.errors.array)
    THEN Throw(TRUE, "Invalid JSON")
    ELSE LET errors == v.props.errors.items IN
    IF Len(errors) > 0 /\ ~IsObject(errors[1])
    THEN Throw(TRUE, "<TypeError>")
    ELSE IF isCompact(errors) /\ \E i \in 1..Len(errors) : errors[i] = JsNull
    THEN Throw(TRUE, "<TypeError>")
    ELSE Return(createResult(
            Get(v.props, "data"),
            IF isCompact(errors)
            THEN [i \in 1..Len(errors) |-> expandError(errors[i])]
            ELSE errors,
            Get(v.props, "status"),
            Get(v.props, "meta")))

fromJson_NoLevel(json) ==
    LET try == fromJsonTry(json) IN
    IF ~try.threw
    THEN try.value
    ELSE createResult(Def(Null),
            <<[code |-> "INVALID_JSON",
               message |-> IF try.isError THEN try.message ELSE "Invalid JSON",
               status |-> 400]>>,
            Def(400), Undefined)
fromJson(json) ==
    LET try == fromJsonTry(json) IN
    IF ~try.threw
    THEN try.value
    ELSE createResult(Def(Null),
            <<[code |-> "INVALID_JSON",
               message |-> IF try.isError THEN try.message ELSE "Invalid JSON",
               status |-> 400,
               level |-> "error"]>>,
            Def(400), Undefined)

\* -------------------------------------------------------- error builders
\* A message template is a text cut into chunks: literal text and {name}
\* tokens. A message given as one JavaScript string with no token in it is
\* a TLA+ string.
Lit(s) == [lit |-> s]
Tok(name) == [tok |-> name]

\* Values handed for a token: a number, or a string given as its chunks.
Num(n) == [num |-> n]
Text(chunks) == [text |-> chunks]

\* String(value), as chunks.
String(value) ==
    IF "num" \in DOMAIN value THEN <<Lit(ToString(value.num))>> ELSE value.text

\* The parameter object of a builder is the sequence of its entries
\* <<key, value>> in insertion order, the order of for ... in; params is
\* that object, or undefined. Field(params, key) is params?.[key].
Field(params, key) ==
    IF params = Undefined THEN Undefined
    ELSE LET hits == {i \in 1..Len(params[1]) : params[1][i][1] = key}
         IN  IF hits = {} THEN Undefined ELSE params[1][CHOOSE i \in hits : TRUE][2]

\* The object literal that both builders return.
BuiltDetail(code, message, status, level, params) ==
    [code |-> code, message |-> message]
    @@ Prop("status", status)
    @@ (IF TruthyStr(level) THEN Prop("level", level) ELSE <<>>)
    @@ (IF TruthyStr(Field(params, "path"))
        THEN Prop("path", Field(params, "path")) ELSE <<>>)
    @@ (IF TruthyObj(Field(params, "meta"))
        THEN Prop("meta", Field(params, "meta")) ELSE <<>>)
    @@ (IF TruthyObj(Field(params, "cause"))
        THEN Prop("cause", Field(params, "cause")) ELSE <<>>)

\* defineError(code, message, status, level)(params): the message is the
\* override when it is truthy, the message given at definition otherwise.
defineError(code, message, status, level, params) ==
    BuiltDetail(code, OrElse(Field(params, "message"), Def(message))[1],
                status, level, params)

\* message.replace(new RegExp('\\{key\\}', 'g'), str), for a key made of
\* word characters and a str without $ patterns.
RECURSIVE ReplaceAll(_, _, _)
ReplaceAll(message, key, str) ==
    IF message = <<>> THEN <<>>
    ELSE (IF Head(message) = Tok(key) THEN str ELSE <<Head(message)>>)
         \o ReplaceAll(Tail(message), key, str)

\* The for ... in loop of defineErrorAdvanced, from entry i on.
RECURSIVE Interpolate(_, _, _)
Interpolate(message, entries, i) ==
    IF i > Len(entries) THEN message
    ELSE LET key == entries[i][1]
             value == entries[i][2]
         IN  Interpolate(
                IF key \notin {"path", "meta", "cause", "message"} /\ value # Undefined
                THEN ReplaceAll(message, key, String(value[1]))
                ELSE message,
                entries, i + 1)

\* defineErrorAdvanced(code, template, status, level)(params).
defineErrorAdvanced(code, template, status, level, params) ==
    LET override == Field(params, "message")
        message == IF TruthyStr(override) THEN override[1]
                   ELSE IF params # Undefined THEN Interpolate(template, params[1], 1)
                   ELSE template
    IN  BuiltDetail(code, message, status, level, params)

\* validation.ts
validationError(params) ==
    defineError("VALIDATION_ERROR", "Invalid input data", Def(400), Undefined, params)

validationErrors(list) ==
    err(Many([i \in 1..Len(list) |->
                validationError(Def(<<<<"message", Def(list[i].message)>>,
                                      <<"path", Def(list[i].path)>>>>))]),
        Undefined, Def(400))

\* ---------------------------------------------------------------- inputs
eMin == [code |-> "E_MIN", message |-> "minimal"]
eFalsy == [code |-> "E_ROOT", message |-> "", status |-> 0, path |-> ""]
eWarn == [code |-> "E_WARN", message |-> "careful", status |-> 404, path |-> "/a",
          level |-> "warning", meta |-> [hint |-> "h"]]
eInfo == [code |-> "E_INFO", message |-> "fyi", level |-> "info"]
eCrit == [code |-> "E_CRIT", message |-> "down", status |-> 503, level |-> "critical"]

\* An ErrorDetail with a cause chain of n links below it.
RECURSIVE CauseChain(_)
CauseChain(n) ==
    IF n = 0
    THEN [code |-> "E_DB", message |-> "timeout", status |-> 500]
    ELSE [code |-> "E_SVC", message |-> "failed", path |-> "/svc", level |-> "error",
          cause |-> CauseChain(n - 1)]

ErrorDetails ==
    {eMin, eFalsy, eWarn, eInfo, eCrit}
    \cup {CauseChain(n) : n \in 1..MaxCauseDepth}

\* Error lists: empty, or any ErrorDetail followed by up to MaxErrors - 1
\* entries with no level, a warning level and a critical level.
TailDetails == {eMin, eWarn, eCrit}
ErrorLists ==
    {<<>>} \cup UNION {{<<e>> \o t : e \in ErrorDetails, t \in [1..(n - 1) -> TailDetails]} :
                        n \in 1..MaxErrors}

Payloads == {"a", ""}
DataArgs == {Undefined, Def(Null)} \cup {Def(p) : p \in Payloads}
StatusArgs == {Undefined, Def(0), Def(404)}
\* ResultMeta takes any key ([key: string]: unknown): one meta uses a key of
\* its own, one the key "data" that toJSON writes too.
MetaArgs == {Undefined, Def([traceId |-> "t-1"]), Def([data |-> "a"])}

\* Callbacks: what fn does with each argument it can be handed. The callbacks
\* tried are the constant ones (return one value, or throw, whatever the
\* argument) and two that depend on their argument.
Thrown == {Throw(TRUE, "boom"), Throw(FALSE, "")}
\* map and flatMap never hand null to fn; a caller that composes two callbacks
\* (x => g(f(x))) hands g whatever f returned, null included.
FnArgs == {Undefined, Def(Null)} \cup {Def(p) : p \in Payloads}
MapOutcomes == {Return(d) : d \in DataArgs} \cup Thrown
Echo == [a \in FnArgs |-> Return(a)]
Swap == [a \in FnArgs |->
            IF a = Def("a") THEN Return(Def(""))
            ELSE IF a = Def("") THEN Return(Def("a"))
            ELSE Throw(TRUE, "no data")]
MapFns == {[a \in FnArgs |-> o] : o \in MapOutcomes} \cup {Echo, Swap}

\* x => g(f(x)): g is handed what f returned; a throw of f ends the call.
Compose(f, g) == [a \in FnArgs |-> IF f[a].threw THEN f[a] ELSE g[f[a].value]]
NonThrowing == {fn \in MapFns : \A a \in FnArgs : ~fn[a].threw}

FnResults ==
    {ok(Def("a"), Def([traceId |-> "t-2"]), Def(201)),
     ok(Undefined, Undefined, Undefined),
     err(One(eMin), Undefined, Def(409)),
     createResult(Def("a"), <<eWarn>>, Undefined, Def([traceId |-> "t-2"]))}
FlatOutcomes == {Return(r) : r \in FnResults} \cup Thrown
Wrap == [a \in FnArgs |-> Return(ok(a, Undefined, Def(201)))]
FlatFns == {[a \in FnArgs |-> o] : o \in FlatOutcomes} \cup {Wrap}

\* JSON texts that no toJSON produced: malformed, wrongly shaped, hand-written.
WireLists ==
    {<<>>, <<JsNull>>, <<JsNumber>>, <<eMin, JsNull>>, <<eWarn, JsNull>>,
     <<eMin, compactError(eWarn)>>,
     <<compactError(eWarn), eMin>>, <<compactError(eWarn), JsNull>>,
     <<compactError(eWarn), JsNumber>>}
BadTexts ==
    {[kind |-> "syntax-error"], [kind |-> "primitive"], [kind |-> "null"],
     [kind |-> "array"],
     [kind |-> "object", props |-> [foo |-> 1]],
     [kind |-> "object", props |-> [errors |-> NotArray]],
     [kind |-> "object", props |-> [errors |-> NotArray, data |-> "a", status |-> 200]]}
HandTexts ==
    {[kind |-> "object",
      props |-> [errors |-> JsonArray(es)] @@ Prop("data", d) @@ Prop("status", s)] :
        es \in WireLists, d \in {Undefined, Def(Null), Def("a")}, s \in {Undefined, Def(404)}}
Texts == BadTexts \cup HandTexts

\* What the error builders are defined and called with.
Templates ==
    {<<Lit("Something went wrong")>>,
     <<Lit("User "), Tok("id"), Lit(" missing")>>,
     <<Tok("id"), Lit(" = "), Tok("id"), Lit(" in "), Tok("where")>>}
BuilderLevels == {Undefined, Def("warning")}

\* Parameter objects, each a sequence of entries, and no params at all.
ParamObjects ==
    <<Undefined,
      Def(<<>>),
      Def(<<<<"id", Def(Num(42))>>>>),
      Def(<<<<"id", Def(Text(<<Lit("bob")>>))>>, <<"where", Def(Text(<<Lit("db")>>))>>>>),
      Def(<<<<"where", Def(Num(7))>>, <<"id", Def(Num(42))>>>>),
      Def(<<<<"id", Def(Text(<<Tok("where")>>))>>, <<"where", Def(Num(7))>>>>),
      Def(<<<<"id", Undefined>>>>),
      Def(<<<<"message", Def("custom")>>, <<"id", Def(Num(42))>>>>),
      Def(<<<<"message", Def("")>>, <<"id", Def(Num(42))>>>>),
      Def(<<<<"id", Def(Num(42))>>, <<"path", Def("/u")>>, <<"meta", Def([hint |-> "h"])>>,
            <<"cause", Def(eMin)>>>>),
      Def(<<<<"path", Def("")>>>>)>>

\* validationErrors: lists of up to MaxErrors {path, message} items.
Items ==
    {[path |-> "email", message |-> "Invalid email address"],
     [path |-> "", message |-> "Body required"],
     [path |-> "age", message |-> ""]}
ItemLists == UNION {[1..n -> Items] : n \in 0..MaxErrors}

\* ----------------------------------------------------------------- state
\* cur    the Result the program holds (the receiver of the next call)
\* prev   the receiver of the last call (the Result last built, for a factory)
\* root   the Result the current chain of map / flatMap calls started from
\* op     the last call: its name, its arguments, what it returned
\* calls  callback invocations since root was built
\* steps  map / flatMap calls since root was built
\* A run builds one Result, with a factory or with fromJson, and then calls
\* map, flatMap, toJSON and fromJson on what it holds.
NoResult == <<>>

Init ==
    /\ cur = NoResult
    /\ prev = NoResult
    /\ root = NoResult
    /\ op = [name |-> "start"]
    /\ calls = 0
    /\ steps = 0

\* The program holds a Result: the last call was not a call of an error
\* builder, which returns an ErrorDetail.
Held == op.name \notin {"start", "defineError", "defineErrorAdvanced"}

\* A factory call: the Result it returned is held, the call is in op.
BuiltBy(r, call) ==
    /\ cur' = r
    /\ prev' = r
    /\ root' = r
    /\ op' = call
    /\ calls' = 0
    /\ steps' = 0

Built(r, name) == BuiltBy(r, [name |-> name])

Ok == \E data \in DataArgs, meta \in MetaArgs, status \in StatusArgs :
        /\ ~Held
        /\ BuiltBy(ok(data, meta, status),
                   [name |-> "ok", data |-> data, meta |-> meta, status |-> status])

ErrOne == \E e \in ErrorDetails, meta \in MetaArgs, status \in StatusArgs :
        /\ ~Held
        /\ BuiltBy(err(One(e), meta, status), [name |-> "err", error |-> One(e)])

ErrMany == \E es \in ErrorLists, meta \in MetaArgs, status \in StatusArgs :
        /\ ~Held
        /\ BuiltBy(err(Many(es), meta, status), [name |-> "err", error |-> Many(es)])

CreateResult ==
    \E data \in DataArgs \ {Undefined}, errors \in ErrorLists,
       status \in StatusArgs, meta \in MetaArgs :
        /\ ~Held
        /\ Built(createResult(data, errors, status, meta), "createResult")

\* One map / flatMap call on cur; did: what fn did each time it was called.
Transformed(name, t, fn) ==
    /\ cur' = t.result
    /\ prev' = cur
    /\ op' = [name |-> name, called |-> t.called,
              did |-> [i \in 1..Len(t.called) |-> fn[t.called[i]]],
              fresh |-> t.fresh]
    /\ calls' = calls + Len(t.called)
    /\ steps' = steps + 1
    /\ UNCHANGED root

Map == \E fn \in MapFns :
        /\ Held
        /\ steps < MaxChain
        /\ Transformed("map", map(cur, fn), fn)

FlatMap == \E fn \in FlatFns :
        /\ Held
        /\ steps < MaxChain
        /\ Transformed("flatMap", flatMap(cur, fn), fn)

\* cur.toJSON(compact): cur is left as it is, the object returned is in op.
ToJSON ==
    \E compact \in BOOLEAN :
        /\ Held
        /\ op.name # "toJSON"
        /\ op' = [name |-> "toJSON", compact |-> compact, out |-> toJSON(cur, compact)]
        /\ prev' = cur
        /\ UNCHANGED <<cur, root, calls, steps>>

\* The four predicates called on cur: cur is left as it is, what they
\* returned is in op.
Inspect ==
    /\ Held
    /\ op.name \notin {"inspect", "toJSON", "toHttpResponse"}
    /\ op' = [name |-> "inspect", isOk |-> isOk(cur), isOkWithData |-> isOkWithData(cur),
              isError |-> isError(cur), hasWarning |-> hasWarning(cur)]
    /\ prev' = cur
    /\ UNCHANGED <<cur, root, calls, steps>>

\* cur.map(f).map(g) and cur.map(x => g(f(x))) for callbacks that do not
\* throw: cur is left as it is, both Results and the number of times g was
\* called in each are in op. The chain tried is two map calls long, within
\* MaxChain like the chains of Map and FlatMap.
MapComposed ==
    \E f \in NonThrowing, g \in NonThrowing :
        LET first    == map(cur, f)
            second   == map(first.result, g)
            composed == map(cur, Compose(f, g))
        IN /\ Held
           /\ steps + 2 <= MaxChain
           /\ op.name \notin {"inspect", "toJSON", "toHttpResponse", "mapComposed"}
           /\ op' = [name |-> "mapComposed",
                     returned |-> [i \in 1..Len(first.called) |-> f[first.called[i]]],
                     chained |-> second.result, composed |-> composed.result,
                     gChained |-> Len(second.called),
                     gComposed |-> Len(composed.called)]
           /\ prev' = cur
           /\ UNCHANGED <<cur, root, calls, steps>>

\* toHttpResponse(cur) and toHttpResponse(cur, compact), as the README
\* calls it: cur is left as it is, what the call returned is in op.
CompactArgs == {Undefined, Def(TRUE), Def(FALSE)}
ToHttpResponse ==
    \E compact \in CompactArgs :
        /\ Held
        /\ op.name \notin {"toJSON", "toHttpResponse"}
        /\ op' = [name |-> "toHttpResponse", compact |-> compact,
                  out |-> toHttpResponse(cur)]
        /\ prev' = cur
        /\ UNCHANGED <<cur, root, calls, steps>>

\* fromJson(JSON.stringify(obj)) of the object the last toJSON returned;
\* prev stays the Result that was encoded.
FromJsonWire ==
    /\ op.name = "toJSON"
    /\ ~op.out.threw
    /\ LET json == stringify(op.out.value) IN
        /\ cur' = fromJson(json)
        /\ root' = cur'
        /\ op' = [name |-> "fromJson", json |-> json, roundTrip |-> TRUE,
                  compact |-> op.compact]
        /\ calls' = 0
        /\ steps' = 0
        /\ UNCHANGED prev

\* fromJson of any other text.
FromJsonText ==
    \E json \in Texts :
        /\ ~Held
        /\ cur' = fromJson(json)
        /\ prev' = cur'
        /\ root' = cur'
        /\ op' = [name |-> "fromJson", json |-> json, roundTrip |-> FALSE]
        /\ calls' = 0
        /\ steps' = 0

ValidationErrors ==
    \E list \in ItemLists :
        /\ ~Held
        /\ BuiltBy(validationErrors(list), [name |-> "validationErrors", list |-> list])

\* A call of an error builder: no Result is held, the call and the
\* ErrorDetail returned are in op.
BuilderCalled(call) ==
    /\ op' = call
    /\ cur' = NoResult
    /\ prev' = NoResult
    /\ root' = NoResult
    /\ calls' = 0
    /\ steps' = 0

DefineError ==
    \E template \in Templates, status \in StatusArgs, level \in BuilderLevels,
       i \in DOMAIN ParamObjects :
        /\ ~Held
        /\ BuilderCalled([name |-> "defineError", code |-> "X", template |-> template,
                          params |-> ParamObjects[i],
                          out |-> defineError("X", template, status, level,
                                              ParamObjects[i])])

DefineErrorAdvanced ==
    \E template \in Templates, status \in StatusArgs, level \in BuilderLevels,
       i \in DOMAIN ParamObjects :
        /\ ~Held
        /\ BuilderCalled([name |-> "defineErrorAdvanced", code |-> "X",
                          template |-> template, params |-> ParamObjects[i],
                          out |-> defineErrorAdvanced("X", template, status, level,
                                                      ParamObjects[i])])

Next ==
    \/ Ok
    \/ ErrOne
    \/ ErrMany
    \/ CreateResult
    \/ Map
    \/ FlatMap
    \/ ToJSON
    \/ FromJsonWire
    \/ FromJsonText
    \/ Inspect
    \/ MapComposed
    \/ ToHttpResponse
    \/ ValidationErrors
    \/ DefineError
    \/ DefineErrorAdvanced

Spec == Init /\ [][Next]_vars

\* ---------------------------------------------------------------- claims
VerboseKeys == {"code", "message", "status", "path", "level", "meta", "cause"}

\* e is an ErrorDetail: an object with a code and a message, verbose keys
\* only, and a cause that is an ErrorDetail too.
RECURSIVE IsErrorDetail(_)
IsErrorDetail(e) ==
    /\ IsObject(e)
    /\ {"code", "message"} \subseteq DOMAIN e
    /\ DOMAIN e \subseteq VerboseKeys
    /\ ("cause" \in DOMAIN e => IsErrorDetail(e.cause))

\* r is a Result as its type describes it: data is a payload or null, and
\* every entry of errors is an ErrorDetail.
IsTypedResult(r) ==
    /\ "data" \in DOMAIN r
    /\ \A i \in 1..Len(r.errors) : IsErrorDetail(r.errors[i])

\* cur is fromJson(JSON.stringify(prev.toJSON(compact))).
RoundTripped(compact) ==
    /\ op.name = "fromJson"
    /\ op.roundTrip
    /\ op.compact = compact

SameStatusMeta(r1, r2) ==
    /\ Get(r1, "status") = Get(r2, "status")
    /\ Get(r1, "meta") = Get(r2, "meta")

\* The last call was map or flatMap on a receiver (prev) with this shape.
Transforming(names) == op.name \in names
ErrorFree(r) == Len(r.errors) = 0
HasNullData(r) == Get(r, "data") = Def(Null)
FnCalledOnce == Len(op.called) = 1 /\ Len(op.did) = 1

\* C1: a verbose round trip gives back a Result equal to the original field
\* by field: same data (null stays null), same errors, same status, same meta.
C1_VerboseRoundTrip ==
    (RoundTripped(FALSE) /\ IsTypedResult(prev)) => cur = prev

\* C2: a compact round trip gives back the same errors: same length, same
\* order, each entry and each cause link equal field by field.
C2_CompactRoundTrip ==
    (RoundTripped(TRUE) /\ IsTypedResult(prev)) => cur.errors = prev.errors

Malformed(json) ==
    \/ json.kind # "object"
    \/ "errors" \notin DOMAIN json.props
    \/ ~json.props.errors.array

IsInvalidJsonResult(r) ==
    /\ DOMAIN r = {"data", "errors", "status"}
    /\ r.data = Null
    /\ r.status = 400
    /\ Len(r.errors) = 1
    /\ DOMAIN r.errors[1] = {"code", "message", "status", "level"}
    /\ r.errors[1].code = "INVALID_JSON"
    /\ r.errors[1].status = 400
    /\ r.errors[1].level = "error"

\* C3: fromJson returns a Result for every text (it never throws); for a text
\* that is not JSON, or that is not an object with an errors array, the
\* Result has data null, status 400 and exactly one error: code
\* INVALID_JSON, status 400, level error.
C3_DecodeFailure ==
    op.name = "fromJson" =>
        /\ "errors" \in DOMAIN cur
        /\ Malformed(op.json) => IsInvalidJsonResult(cur)

C3_Witness ==
    /\ op.name = "fromJson"
    /\ op.json = [kind |-> "object", props |-> [foo |-> 1]]
    /\ IsInvalidJsonResult(cur)

\* C4: map and flatMap on a Result with errors return its errors, status and
\* meta with data null, and do not call fn, also when the receiver had data.
C4_ErrorShortCircuit ==
    (Transforming({"map", "flatMap"}) /\ ~ErrorFree(prev)) =>
        /\ cur.errors = prev.errors
        /\ SameStatusMeta(cur, prev)
        /\ HasNullData(cur)
        /\ op.called = <<>>

C4_Witness ==
    /\ op.name = "map"
    /\ ~ErrorFree(prev)
    /\ Get(prev, "data") = Def("a")
    /\ HasNullData(cur)
    /\ "status" \in DOMAIN cur
    /\ "meta" \in DOMAIN cur

\* C5: map and flatMap on an error-free Result whose data is null return data
\* null, no errors, the same status and meta, and do not call fn.
C5_EmptyShortCircuit ==
    (Transforming({"map", "flatMap"}) /\ ErrorFree(prev) /\ HasNullData(prev)) =>
        /\ HasNullData(cur)
        /\ cur.errors = <<>>
        /\ SameStatusMeta(cur, prev)
        /\ op.called = <<>>

C5_Witness ==
    /\ op.name = "flatMap"
    /\ ErrorFree(prev)
    /\ HasNullData(prev)
    /\ Get(cur, "status") = Def(404)
    /\ "meta" \in DOMAIN cur

\* C6: map on an error-free Result with non-null data calls fn exactly once,
\* with that data; when fn returns, the Result has data = fn(data), no
\* errors, and the receiver's status and meta.
C6_MapSuccess ==
    (op.name = "map" /\ ErrorFree(prev) /\ ~HasNullData(prev)) =>
        /\ FnCalledOnce
        /\ op.called[1] = Get(prev, "data")
        /\ ~op.did[1].threw =>
            /\ Get(cur, "data") = op.did[1].value
            /\ cur.errors = <<>>
            /\ SameStatusMeta(cur, prev)

C6_Witness ==
    /\ op.name = "map"
    /\ ErrorFree(prev)
    /\ Get(prev, "data") = Def("a")
    /\ FnCalledOnce
    /\ op.did[1] = Return(Def(""))
    /\ Get(cur, "data") = Def("")
    /\ Get(cur, "status") = Def(0)
    /\ "meta" \in DOMAIN cur

\* C7: when fn throws in map (flatMap) on an error-free Result with non-null
\* data, the call returns a Result with data null, one error with code
\* MAP_ERROR (FLATMAP_ERROR), status 500 and level error, status 500 in place
\* of the receiver's, and the receiver's meta.
C7_TransformFailure ==
    (/\ Transforming({"map", "flatMap"})
     /\ ErrorFree(prev)
     /\ ~HasNullData(prev)
     /\ FnCalledOnce
     /\ op.did[1].threw) =>
        /\ HasNullData(cur)
        /\ Len(cur.errors) = 1
        /\ cur.errors[1].code = (IF op.name = "map" THEN "MAP_ERROR" ELSE "FLATMAP_ERROR")
        /\ cur.errors[1].status = 500
        /\ cur.errors[1].level = "error"
        /\ Get(cur, "status") = Def(500)
        /\ Get(cur, "meta") = Get(prev, "meta")

C7_Witness ==
    /\ op.name = "flatMap"
    /\ FnCalledOnce
    /\ op.did[1] = Throw(FALSE, "")
    /\ Get(prev, "status") = Def(404)
    /\ "meta" \in DOMAIN prev
    /\ Get(cur, "status") = Def(500)
    /\ cur.errors[1].code = "FLATMAP_ERROR"

\* C8: flatMap on an error-free Result with non-null data, with an fn that
\* returns, is exactly the Result fn returned: not wrapped, not merged with
\* the receiver's status or meta.
C8_FlatMapPassthrough ==
    (op.name = "flatMap" /\ ErrorFree(prev) /\ ~HasNullData(prev)) =>
        /\ FnCalledOnce
        /\ op.called[1] = Get(prev, "data")
        /\ ~op.did[1].threw => cur = op.did[1].value

C8_Witness ==
    /\ op.name = "flatMap"
    /\ ErrorFree(prev)
    /\ Get(prev, "status") = Def(404)
    /\ Get(prev, "meta") = Def([traceId |-> "t-1"])
    /\ FnCalledOnce
    /\ ~op.did[1].threw
    /\ cur = err(One(eMin), Undefined, Def(409))

\* C9: along a chain of map / flatMap calls that starts from a Result with
\* errors, every Result has the errors, status and meta of the first one,
\* data null after the first call, and no callback is ever called.
C9_ErrorPropagation ==
    (Held /\ ~ErrorFree(root)) =>
        /\ cur.errors = root.errors
        /\ SameStatusMeta(cur, root)
        /\ (steps > 0 => HasNullData(cur))
        /\ calls = 0

C9_Witness ==
    /\ steps = 2
    /\ op.name = "flatMap"
    /\ ~ErrorFree(root)
    /\ Get(root, "data") = Def("a")
    /\ cur.errors = root.errors
    /\ HasNullData(cur)
    /\ calls = 0

OnlyWarningsOrInfo(r) ==
    /\ Len(r.errors) > 0
    /\ \A i \in 1..Len(r.errors) :
        Get(Props(r.errors[i]), "level") \in {Def("warning"), Def("info")}

\* C10: isOk() is true exactly when errors is empty, for every Result however
\* it was built; a Result with only warning / info entries is not ok.
C10_IsOkIffNoErrors ==
    Held =>
        /\ isOk(cur) <=> (DOMAIN cur.errors = {})
        /\ OnlyWarningsOrInfo(cur) => ~isOk(cur)

C10_Witness ==
    /\ op.name = "fromJson"
    /\ OnlyWarningsOrInfo(cur)
    /\ ~isOk(cur)

\* r carries a payload: its data is neither null nor missing.
HasPayload(r) == Get(r, "data") \notin {Undefined, Def(Null)}

\* C11: on a Result with no errors, however it was built (ok() with no
\* argument and fromJson of a text with no data field included),
\* isOkWithData() is true exactly when the Result carries a payload; a
\* Result that succeeded with no content gives false.
C11_IsOkWithDataIffPayload ==
    (Held /\ ErrorFree(cur)) => (isOkWithData(cur) <=> HasPayload(cur))

NoNullEntry(r) == \A i \in 1..Len(r.errors) : r.errors[i] # JsNull

\* Some entry of r.errors has no level, or level "error" or "critical".
HasErrorEntry(r) ==
    \E i \in 1..Len(r.errors) :
        LevelOf(r.errors[i]) \in {Undefined, Def("error"), Def("critical")}

\* C12: on every Result (its errors being ErrorDetails, none of them null)
\* isError() is true exactly when some entry has level absent, "error" or
\* "critical"; a non-empty list of warning / info entries gives false.
C12_IsErrorByLevel ==
    (Held /\ NoNullEntry(cur)) =>
        /\ isError(cur) = Return(HasErrorEntry(cur))
        /\ OnlyWarningsOrInfo(cur) => isError(cur) = Return(FALSE)

C12_Witness ==
    /\ op.name = "err"
    /\ cur.errors = <<eInfo, eWarn>>
    /\ isError(cur) = Return(FALSE)

HasWarningEntry(r) ==
    \E i \in 1..Len(r.errors) : LevelOf(r.errors[i]) = Def("warning")

\* C13: on every Result (its errors being ErrorDetails, none of them null)
\* hasWarning() is true exactly when some entry has level "warning",
\* whatever the other entries are: isError() and hasWarning() are both true
\* on a mixed list.
C13_HasWarningByLevel ==
    (Held /\ NoNullEntry(cur)) =>
        /\ hasWarning(cur) = Return(HasWarningEntry(cur))
        /\ (HasWarningEntry(cur) /\ HasErrorEntry(cur)) =>
                (isError(cur) = Return(TRUE) /\ hasWarning(cur) = Return(TRUE))

C13_Witness ==
    /\ op.name = "err"
    /\ cur.errors = <<eMin, eWarn>>
    /\ isError(cur) = Return(TRUE)
    /\ hasWarning(cur) = Return(TRUE)

\* C14: R.toJSON() and R.toJSON(false) return an object that always has an
\* errors key, has a data key exactly when R carries a payload, has a status
\* key exactly when R.status is defined (a status of 0 is kept), and has every
\* key of R.meta at its top level, with no meta key.
C14_VerboseShape ==
    (op.name = "toJSON" /\ ~op.compact) =>
        /\ ~op.out.threw
        /\ "errors" \in DOMAIN op.out.value
        /\ "data" \in DOMAIN op.out.value <=> HasPayload(prev)
        /\ Get(op.out.value, "status") = Get(prev, "status")
        /\ "meta" \notin DOMAIN op.out.value
        /\ "meta" \in DOMAIN prev =>
                \A k \in DOMAIN prev.meta :
                    k \in DOMAIN op.out.value /\ op.out.value[k] = prev.meta[k]

\* The key that the compact form uses for a key of an ErrorDetail.
CompactKey(k) ==
    CASE k = "code" -> "c"
      [] k = "message" -> "m"
      [] k = "status" -> "s"
      [] k = "path" -> "p"
      [] k = "level" -> "l"
      [] OTHER -> k

\* c is the compact form of the ErrorDetail e: one key per field that e has,
\* no other key, the same values, cause rewritten the same way.
RECURSIVE IsCompactOf(_, _)
IsCompactOf(c, e) ==
    /\ DOMAIN c = {CompactKey(k) : k \in DOMAIN e}
    /\ \A k \in DOMAIN e \ {"cause"} : c[CompactKey(k)] = e[k]
    /\ "cause" \in DOMAIN e => IsCompactOf(c.cause, e.cause)

\* C15: R.toJSON(true) rewrites every ErrorDetail, and every cause below it,
\* with c, m, s, p, l for code, message, status, path, level and meta and
\* cause under their own names: a key is emitted exactly when the field is
\* present on the ErrorDetail (none filled in, none dropped), and no verbose
\* key code / message / status / path / level is emitted.
C15_CompactShape ==
    (op.name = "toJSON" /\ op.compact /\ IsTypedResult(prev)) =>
        /\ ~op.out.threw
        /\ Len(op.out.value.errors) = Len(prev.errors)
        /\ \A i \in 1..Len(prev.errors) :
                IsCompactOf(op.out.value.errors[i], prev.errors[i])

\* The errors array of the text that fromJson was given.
WireErrors == op.json.props.errors.items

\* e has verbose keys only, at every depth of its cause chain.
RECURSIVE IsExpanded(_)
IsExpanded(e) ==
    /\ DOMAIN e \subseteq VerboseKeys
    /\ ("cause" \in DOMAIN e => IsExpanded(e.cause))

\* C16: the first entry of the errors array alone decides the format. When it
\* has both a c and an m key, every entry and every cause link is expanded to
\* verbose keys, and a verbose entry after it keeps its code and message;
\* otherwise, an empty array included, the array is stored as it is, a
\* compact entry after a verbose first entry included. (Arrays of objects:
\* a text with a null or primitive entry is the case of C30.)
C16_FirstEntryDecides ==
    (/\ op.name = "fromJson"
     /\ ~Malformed(op.json)
     /\ \A i \in 1..Len(WireErrors) : IsObject(WireErrors[i])) =>
        /\ Len(cur.errors) = Len(WireErrors)
        /\ IF Len(WireErrors) > 0 /\ {"c", "m"} \subseteq DOMAIN WireErrors[1]
           THEN \A i \in 1..Len(WireErrors) :
                    /\ IsExpanded(cur.errors[i])
                    /\ IsErrorDetail(WireErrors[i]) =>
                            /\ cur.errors[i].code = WireErrors[i].code
                            /\ cur.errors[i].message = WireErrors[i].message
           ELSE cur.errors = WireErrors

C16_Witness ==
    /\ op.name = "fromJson"
    /\ ~Malformed(op.json)
    /\ WireErrors = <<compactError(eWarn), eMin>>
    /\ cur.errors = <<eWarn, eMin>>

\* The entries of r.errors whose status is 500 or more.
ServerErrors(r) ==
    {i \in 1..Len(r.errors) :
        StatusOf(r.errors[i]) # Undefined /\ StatusOf(r.errors[i])[1] >= 500}

\* The status that the priority list gives for r.
StatusByPriority(r) ==
    IF Get(r, "status") # Undefined THEN r.status
    ELSE IF ErrorFree(r) THEN (IF HasPayload(r) THEN 200 ELSE 204)
    ELSE IF ServerErrors(r) # {}
    THEN r.errors[CHOOSE i \in ServerErrors(r) : \A j \in ServerErrors(r) : i <= j].status
    ELSE IF StatusOf(r.errors[1]) # Undefined THEN r.errors[1].status
    ELSE 400

\* C17: inferStatus(R) is R.status when it is defined; else 200 for no
\* errors and a payload, 204 for no errors and no data; else the status of
\* the first error with a status of 500 or more; else the status of the
\* first error; else 400.
C17_InferStatusPriority ==
    (Held /\ NoNullEntry(cur)) => inferStatus(cur) = Return(StatusByPriority(cur))

\* C18: ok(d) is a Result with no errors, isOk() true and data d
\* (isOkWithData() true when d is a payload), ok() has data null; err(e) and
\* err(es) are Results with data null, errors [e] or es in the same order,
\* isOk() false, and isError() true when e has no level.
C18_Construction ==
    /\ op.name = "ok" =>
        /\ cur.errors = <<>>
        /\ isOk(cur)
        /\ Get(cur, "data") = (IF op.data = Undefined THEN Def(Null) ELSE op.data)
        /\ op.data \notin {Undefined, Def(Null)} => isOkWithData(cur)
    /\ op.name = "err" =>
        /\ HasNullData(cur)
        /\ cur.errors = (IF op.error.isArray THEN op.error.value ELSE <<op.error.value>>)
        /\ ~isOk(cur)
        /\ (~op.error.isArray /\ "level" \notin DOMAIN op.error.value) =>
                isError(cur) = Return(TRUE)

\* The template with every token that params gives a value for replaced by
\* String of that value, all tokens at once.
RECURSIVE Interpolated(_, _)
Interpolated(template, params) ==
    IF template = <<>> THEN <<>>
    ELSE (IF "tok" \in DOMAIN Head(template)
             /\ Field(params, Head(template).tok) # Undefined
          THEN String(Field(params, Head(template).tok)[1])
          ELSE <<Head(template)>>)
         \o Interpolated(Tail(template), params)

\* C19: the builder that defineError(code, template, status?, level?)
\* returns, called with a parameter object and no message override, returns
\* an ErrorDetail with the bound code and with the template as message, each
\* {name} token replaced by String(params[name]).
C19_TemplateInterpolation ==
    (/\ op.name = "defineError"
     /\ op.params # Undefined
     /\ Field(op.params, "message") = Undefined) =>
        /\ op.out.code = op.code
        /\ op.out.message = Interpolated(op.template, op.params)

\* C20: validationErrors(list) is a Result with data null, status 400 and
\* one error per item, in the order of the list: entry i has code
\* VALIDATION_ERROR, status 400, the path and the message of item i.
C20_ValidationErrors ==
    op.name = "validationErrors" =>
        /\ HasNullData(cur)
        /\ Get(cur, "status") = Def(400)
        /\ Len(cur.errors) = Len(op.list)
        /\ \A i \in 1..Len(op.list) :
                /\ cur.errors[i].code = "VALIDATION_ERROR"
                /\ Get(cur.errors[i], "status") = Def(400)
                /\ Get(cur.errors[i], "path") = Def(op.list[i].path)
                /\ cur.errors[i].message = op.list[i].message

\* C21: ok() with no argument returns a Result whose data is null and whose
\* status is 204.
C21_VoidSuccessStatus ==
    (/\ op.name = "ok"
     /\ op.data = Undefined
     /\ op.meta = Undefined
     /\ op.status = Undefined) =>
        /\ HasNullData(cur)
        /\ Get(cur, "status") = Def(STATUS_NO_CONTENT)

\* C22: toHttpResponse(result, compact?) returns {status, body} with status
\* = inferStatus(result); body is result.toJSON(true), its errors in compact
\* keys, when compact is true, and result.toJSON() otherwise.
C22_HttpResponse ==
    (op.name = "toHttpResponse" /\ NoNullEntry(cur)) =>
        /\ ~op.out.threw
        /\ DOMAIN op.out.value = {"status", "body"}
        /\ op.out.value.status = inferStatus(cur).value
        /\ op.out.value.body = toJSON(cur, op.compact = Def(TRUE)).value

\* C23: no call of isOk, isOkWithData, isError, hasWarning, toJSON, map or
\* flatMap, a callback that throws included, changes the data, errors, status
\* or meta of its receiver (cur before the call, prev after it); what map
\* returns on every path, and flatMap when it short-circuits, is a new
\* object, not the receiver.
C23_Immutability ==
    [][op'.name \in {"inspect", "toJSON", "map", "flatMap"} =>
            /\ prev' = cur
            /\ op'.name \in {"inspect", "toJSON"} => cur' = cur
            /\ (op'.name = "map" \/ (op'.name = "flatMap" /\ op'.called = <<>>)) =>
                    op'.fresh]_vars

C23_Witness ==
    /\ op.name = "flatMap"
    /\ op.called = <<>>
    /\ ErrorFree(prev)
    /\ HasNullData(prev)
    /\ cur = prev
    /\ op.fresh

\* e, and every link of its cause chain, is an object with a code and a
\* message.
RECURSIVE HasCodeAndMessage(_)
HasCodeAndMessage(e) ==
    /\ IsObject(e)
    /\ {"code", "message"} \subseteq DOMAIN e
    /\ ("cause" \in DOMAIN e => HasCodeAndMessage(e.cause))

\* C24: in every Result that ok, err, validationErrors, map, flatMap (their
\* failure paths included) and fromJson (of any text) return, every entry of
\* errors and every link of its cause chain has a code and a message.
C24_WellFormedErrors ==
    Held => \A i \in 1..Len(cur.errors) : HasCodeAndMessage(cur.errors[i])

\* errors non-empty implies data null.
DataNullIfErrors(r) == ErrorFree(r) \/ HasNullData(r)

\* The Results that the callback of the call just made returned (flatMap)
\* all have data null when they have errors, as every Result of ok / err has.
CallbackKeptRule(call) ==
    \A i \in 1..Len(call.did) :
        (call.name = "flatMap" /\ ~call.did[i].threw) => DataNullIfErrors(call.did[i].value)

\* C25: every Result reached from ok(d) or err(e) by map and flatMap calls
\* whose callbacks return a value, return a Result of ok / err, or throw, has
\* data null when its errors are not empty: ok and err establish it, and
\* every such map / flatMap call keeps it.
C25_ErrorsImplyNullData ==
    /\ [](op.name \in {"ok", "err"} => DataNullIfErrors(cur))
    /\ [][(/\ op'.name \in {"map", "flatMap"}
           /\ DataNullIfErrors(cur)
           /\ CallbackKeptRule(op')) => DataNullIfErrors(cur')]_vars

C25_Witness ==
    /\ steps = 2
    /\ op.name = "map"
    /\ root = ok(Def("a"), Undefined, Undefined)
    /\ FnCalledOnce
    /\ op.did[1].threw
    /\ Len(cur.errors) = 1
    /\ HasNullData(cur)

\* C26: map composition law. For non-throwing f and g (f may return null),
\* R.map(f).map(g) has the data, errors, status and meta of
\* R.map(x => g(f(x))), and g is called as many times in both.
C26_MapComposition ==
    op.name = "mapComposed" =>
        /\ op.chained = op.composed
        /\ op.gChained = op.gComposed

\* C27: every Result of err(x) or validationErrors(list) is a failure,
\* whatever the argument, an empty array / list included: isOk() is false and
\* errors is not empty.
C27_ErrIsFailure ==
    op.name \in {"err", "validationErrors"} =>
        /\ ~isOk(cur)
        /\ cur.errors # <<>>

\* The errors, data and status keys of a toJSON output, the ones it has.
StructuralKeys(out) ==
    [k \in DOMAIN out \cap {"errors", "data", "status"} |-> out[k]]

\* r with its meta left out.
WithoutMeta(r) == ResultImpl(Get(r, "data"), r.errors, Get(r, "status"), Undefined)

\* C28: in the output of toJSON, either format, the errors, data and status
\* keys are those that the Result's own errors, data and status give, whatever
\* its meta holds: they are the keys and values of the output of the same
\* Result without meta.
C28_MetaCannotOverride ==
    (op.name = "toJSON" /\ ~op.out.threw) =>
        StructuralKeys(op.out.value) =
            StructuralKeys(toJSON(WithoutMeta(prev), op.compact).value)

\* C29: status inference is stable across the wire. For every Result R and
\* both formats, inferStatus of fromJson(JSON.stringify(R.toJSON(compact)))
\* is inferStatus(R): 204 for an error-free Result with no data, 200 for one
\* with data.
C29_InferStatusAcrossWire ==
    (op.name = "fromJson" /\ op.roundTrip /\ IsTypedResult(prev)) =>
        inferStatus(cur) = inferStatus(prev)

\* C30: a Result returned by fromJson is safe to use. For every text,
\* isOk, isOkWithData, isError, hasWarning, toJSON(false) and toJSON(true)
\* called on fromJson(text) return without throwing, whatever the entries
\* of the decoded errors array are. (isOk and isOkWithData read lengths and
\* data only: they have no throwing outcome.)
C30_FromJsonSafe ==
    op.name = "fromJson" =>
        /\ isOk(cur) \in BOOLEAN
        /\ isOkWithData(cur) \in BOOLEAN
        /\ ~isError(cur).threw
        /\ ~hasWarning(cur).threw
        /\ ~toJSON(cur, FALSE).threw
        /\ ~toJSON(cur, TRUE).threw

====
